---- MODULE Spec2Model ----
(***************************************************************************)
(* The controller-driven agent loop of src/enhanced_agents.py              *)
(* (EnhancedAgent.run and its handlers) as a state machine.                *)
(*                                                                         *)
(* Floats are carried in tenths: 0.3 is 3, 1.0 is 10.                      *)
(* A text is a sequence of characters; a character is a record [c |-> k],  *)
(* k one of "tick" (a backquote), "j", "s", "o", "n", "ws" (a whitespace   *)
(* character), or an atom [c |-> "atom", v |-> payload] that stands for a  *)
(* whole payload substring with no backquote or whitespace at its ends:    *)
(* a JSON object, a JSON value that is not an object, or prose.            *)
(***************************************************************************)
EXTENDS Integers, Sequences, FiniteSets, TLC

\* ---------------------------------------------------------------- bounds
MaxIter == 4
MaxPlanLen == 2
MaxScriptLen == 3
MaxPieces == 4
MaxDone == 4
MaxRecorded == 3
MaxLines == 3

\* ------------------------------------------------------ program constants
DefaultDecisionConfidence == 3
MissingConfidence == 5
FallbackQualityScore == 3
MissingQualityScore == 5
MissingConfidenceAdjustment == 0
ConfidenceFloor == 0
ConfidenceCeiling == 10
RecentTasks == 3
RecentReflections == 2

\* ------------------------------------------------------------------ texts
Ch(k) == [c |-> k]
Atom(v) == [c |-> "atom", v |-> v]
Tick == Ch("tick")
Ws == Ch("ws")

JsonObject(f) == [kind |-> "object", fields |-> f]
JsonList == [kind |-> "list"]
Prose == [kind |-> "prose"]

RECURSIVE lstrip(_)
lstrip(t) == IF t # <<>> /\ Head(t) = Ws THEN lstrip(Tail(t)) ELSE t

RECURSIVE rstrip(_)
rstrip(t) ==
    IF t # <<>> /\ t[Len(t)] = Ws THEN rstrip(SubSeq(t, 1, Len(t) - 1)) ELSE t

strip(t) == rstrip(lstrip(t))

StartsWith(t, p) == Len(t) >= Len(p) /\ SubSeq(t, 1, Len(p)) = p
EndsWith(t, p) == Len(t) >= Len(p) /\ SubSeq(t, Len(t) - Len(p) + 1, Len(t)) = p
DropFirst(t, n) == SubSeq(t, n + 1, Len(t))

Fence == <<Tick, Tick, Tick>>
JsonTag == <<Ch("j"), Ch("s"), Ch("o"), Ch("n")>>

\* re.sub(r"^```(?:json)?\s*", "", t)
SubLeadingFence(t) ==
    IF StartsWith(t, Fence)
    THEN LET a == DropFirst(t, 3)
             b == IF StartsWith(a, JsonTag) THEN DropFirst(a, 4) ELSE a
         IN  lstrip(b)
    ELSE t

\* re.sub(r"```$", "", t)
SubTrailingFence(t) ==
    IF EndsWith(t, Fence) THEN SubSeq(t, 1, Len(t) - 3) ELSE t

\* the cleaning every tool and the controller apply to result.content
Sanitize(raw) == strip(SubTrailingFence(SubLeadingFence(strip(raw))))

\* json.loads: the text is one whole JSON payload, or JSONDecodeError
IsJson(t) == Len(t) = 1 /\ t[1].c = "atom" /\ t[1].v.kind \in {"object", "list"}
json_loads(t) == t[1].v
IsDict(v) == v.kind = "object"

\* dict.get(key, default)
Get(d, key, default) == IF key \in DOMAIN d THEN d[key] ELSE default

Plain(v) == <<Atom(v)>>
Fenced(v) == Fence \o JsonTag \o <<Ws, Atom(v), Ws>> \o Fence
\* every payload as it stands, and some of them inside a ```json fence
Wrap(vs, fenced) == {Plain(v) : v \in vs} \cup {Fenced(v) : v \in fenced}

\* ------------------------------------------------- Completion Service
Objective == "X"
Tasks == {"t1", "t2"}
\* a plan alternates the two task texts, so that neighbours differ
OtherTask(t) == CHOOSE u \in Tasks : u # t
PlanFrom(first, n) == [i \in 1..n |-> IF i % 2 = 1 THEN first ELSE OtherTask(first)]
Plans == {PlanFrom(t, n) : t \in Tasks, n \in 0..MaxPlanLen}

ActionLabels == {"plan", "execute", "reflect", "replan", "complete", "dance"}

NoFields == <<>>
Opt(S) == {NoFields} \cup S

\* what the service may answer to the controller's prompt
DecisionObjects ==
    {[action |-> x, confidence |-> 8] : x \in ActionLabels}
        \cup {NoFields, [action |-> "complete", confidence |-> 12]}
ControllerTexts ==
    Wrap({Prose, JsonList} \cup {JsonObject(f) : f \in DecisionObjects},
         {Prose, JsonObject([action |-> "execute", confidence |-> 8])})

\* what the service may answer to the planning prompt
PlanObjects == Opt({[plan |-> p] : p \in Plans})
PlanningTexts ==
    Wrap({Prose, JsonList} \cup {JsonObject(f) : f \in PlanObjects},
         {Prose, JsonObject([plan |-> <<"t1">>])})

\* what the service may answer to the execution prompt
ExecutionObjects ==
    { [execution_process |-> "p", results |-> <<Ch("r")>>, quality_score |-> 8] }
ExecutionTexts ==
    Wrap({Prose, JsonList} \cup {JsonObject(f) : f \in ExecutionObjects},
         {Prose})

\* what the service may answer to the reflection prompt
ReflectionObjects ==
    { NoFields,
      [confidence_adjustment |-> -5],
      [assessment |-> "a", should_replan |-> TRUE, confidence_adjustment |-> 7] }
ReflectionTexts ==
    Wrap({Prose, JsonList} \cup {JsonObject(f) : f \in ReflectionObjects},
         {Prose, JsonObject([confidence_adjustment |-> -5])})

\* ------------------------------------------------------------------ state
VARIABLES
    max_iterations,      \* argument of run
    iteration_count,     \* local of run
    pc,                  \* "loop", "dispatch", "return", "done", "raised"
    error,               \* the exception run raised, "" if none
    decision,            \* local of run: what decide_next_action returned
    action,              \* local of run, "<unbound>" before the first decision
    confidence,          \* local of run
    plan,                \* state.plan
    completed_tasks,     \* state.completed_tasks
    reflection_history,  \* state.reflection_history
    messages,            \* state.messages
    replan_count,        \* state.replan_count
    confidence_score,    \* state.confidence_score
    status,              \* state.status
    returned,            \* the record run returned
    asked,               \* the last controller exchange: cleaned text, outcome
                         \* and the recent history that was sent
    last,                \* the last component exchange: who, raw text, outcome
    complete_decided,    \* some decision so far had action complete
    requests,            \* calls of llm.invoke made in the current iteration
    text,                \* a text handed to the cleaning on its own
    cleanings,           \* what successive cleanings of text returned
    listing,             \* the simple workflow: the planner's answer, as lines
    state,               \* the simple workflow: its AgentState
    node,                \* the simple workflow: the node to run next
    executed,            \* the simple workflow: the tasks given to the executor
    visits               \* the simple workflow: the runs of the execute node

locals == <<iteration_count, decision, action, confidence>>
session == <<plan, completed_tasks, reflection_history, messages,
             replan_count, confidence_score, status>>
cleaning == <<text, cleanings>>
workflow == <<listing, state, node, executed, visits>>
vars == <<max_iterations, pc, error, returned, asked, last, complete_decided,
          requests, locals, session, cleaning, workflow>>

Unbound == "<unbound>"
NoDecision == [kind |-> "none"]
NoResult == [none |-> TRUE]
NoExchange == [op |-> "none", raw |-> <<>>, decode |-> "none"]
NoQuestion == [cleaned |-> <<>>, decode |-> "none", history |-> <<>>]

\* EnhancedAgentState.__init__ and the first lines of run, called with one
\* of budgets as max_iterations
Constructed(budgets) ==
    /\ max_iterations \in budgets
    /\ iteration_count = 0
    /\ pc = "loop"
    /\ error = ""
    /\ decision = NoDecision
    /\ action = Unbound
    /\ confidence = 0
    /\ plan = <<>>
    /\ completed_tasks = <<>>
    /\ reflection_history = <<>>
    /\ messages = <<>>
    /\ replan_count = 0
    /\ confidence_score = 0
    /\ status = "initializing"
    /\ returned = NoResult
    /\ asked = NoQuestion
    /\ last = NoExchange
    /\ complete_decided = FALSE
    /\ requests = 0

\* run_agent's initial_state, the graph at its entry point, the planner
\* answering lines when it is asked
initial_state == [plan |-> <<>>, current_step |-> 0, messages |-> <<>>, results |-> <<>>]
Entered(lines) ==
    /\ listing = lines
    /\ state = initial_state
    /\ node = "planning"
    /\ executed = <<>>
    /\ visits = 0

InitWith(budgets) ==
    /\ Constructed(budgets)
    /\ text = <<>>
    /\ cleanings = <<>>
    /\ Entered(<<>>)

Init == InitWith(0..MaxIter)

\* --------------------------------------------------------- the controller
\* faulty variant: the default decision carries the confidence of a decision
\* that has none
DefaultDecision_midconfidence ==
    JsonObject([action |-> "reflect",
                reasoning |-> "Failed to parse decision, defaulting to reflection",
                parameters |-> NoFields,
                confidence |-> MissingConfidence,
                urgency |-> "medium"])

DefaultDecision ==
    JsonObject([action |-> "reflect",
                reasoning |-> "Failed to parse decision, defaulting to reflection",
                parameters |-> NoFields,
                confidence |-> DefaultDecisionConfidence,
                urgency |-> "medium"])

\* seq[-n:]
LastN(seq, n) == IF Len(seq) <= n THEN seq ELSE SubSeq(seq, Len(seq) - n + 1, Len(seq))
\* seq[:n]
FirstN(seq, n) == IF Len(seq) <= n THEN seq ELSE SubSeq(seq, 1, n)

\* faulty variant: the oldest entries are taken, not the latest
recent_history_oldest(s) ==
    (IF s.completed_tasks # <<>>
     THEN FirstN(s.completed_tasks, RecentTasks) ELSE <<>>)
      \o (IF s.reflection_history # <<>>
          THEN FirstN(s.reflection_history, RecentReflections) ELSE <<>>)

\* the recent history the decision prompt is given
recent_history(s) ==
    (IF s.completed_tasks # <<>>
     THEN LastN(s.completed_tasks, RecentTasks) ELSE <<>>)
      \o (IF s.reflection_history # <<>>
          THEN LastN(s.reflection_history, RecentReflections) ELSE <<>>)

\* how json.loads fares on a cleaned text
DecodeOutcome(cleaned) == IF IsJson(cleaned) THEN "ok" ELSE "JSONDecodeError"

\* LLMController.decide_next_action, given the service's answer
decide_next_action(raw) ==
    LET cleaned == Sanitize(raw)
    IN  IF IsJson(cleaned) THEN json_loads(cleaned) ELSE DefaultDecision

\* ------------------------------------------------------------ the handlers
\* A handler maps the session state s and the service's answer to an outcome:
\* the new session state, the exception it raised ("" if none) and the
\* exchange it had with the service.
SessionState ==
    [plan |-> plan, completed_tasks |-> completed_tasks,
     reflection_history |-> reflection_history, messages |-> messages,
     replan_count |-> replan_count, confidence_score |-> confidence_score]

Outcome(s, raised, op, raw, decode) ==
    [s |-> s, raised |-> raised, calls |-> 1,
     exchange |-> [op |-> op, raw |-> raw, decode |-> decode]]
\* a message of state.messages, kept as what it reports: the loop appends
\* messages and never reads them
HumanMessage(about) == [about |-> about]

NoCall(s) == [s |-> s, raised |-> "", calls |-> 0, exchange |-> NoExchange]

\* faulty variant: a planning answer that is not JSON clears the plan
\* faulty variant: an answer with no plan field leaves the plan as it is
handle_planning_keeping(s, is_replan, raw) ==
    LET result == Sanitize(raw)
    IN  IF ~IsJson(result)
        THEN Outcome(s, "", "planning", raw, "JSONDecodeError")
        ELSE LET plan_data == json_loads(result)
             IN  IF ~IsDict(plan_data)
                 THEN Outcome(s, "AttributeError", "planning", raw, "ok")
                 ELSE LET new_plan == Get(plan_data.fields, "plan", s.plan)
                          t == [s EXCEPT
                                  !.plan = new_plan,
                                  !.replan_count = IF is_replan THEN @ + 1 ELSE @,
                                  !.messages = Append(@,
                                      HumanMessage(IF is_replan THEN "replan"
                                                   ELSE "plan"))]
                      IN  Outcome(t, "", "planning", raw, "ok")

\* faulty variant: the new tasks are added after the ones the plan has
handle_planning_extending(s, is_replan, raw) ==
    LET result == Sanitize(raw)
    IN  IF ~IsJson(result)
        THEN Outcome(s, "", "planning", raw, "JSONDecodeError")
        ELSE LET plan_data == json_loads(result)
             IN  IF ~IsDict(plan_data)
                 THEN Outcome(s, "AttributeError", "planning", raw, "ok")
                 ELSE LET new_plan == Get(plan_data.fields, "plan", <<>>)
                          t == [s EXCEPT
                                  !.plan = @ \o new_plan,
                                  !.replan_count = IF is_replan THEN @ + 1 ELSE @,
                                  !.messages = Append(@,
                                      HumanMessage(IF is_replan THEN "replan"
                                                   ELSE "plan"))]
                      IN  Outcome(t, "", "planning", raw, "ok")

\* faulty variant: every planning that decodes counts as a replan
handle_planning_counting(s, is_replan, raw) ==
    LET result == Sanitize(raw)
    IN  IF ~IsJson(result)
        THEN Outcome(s, "", "planning", raw, "JSONDecodeError")
        ELSE LET plan_data == json_loads(result)
             IN  IF ~IsDict(plan_data)
                 THEN Outcome(s, "AttributeError", "planning", raw, "ok")
                 ELSE LET new_plan == Get(plan_data.fields, "plan", <<>>)
                          t == [s EXCEPT
                                  !.plan = new_plan,
                                  !.replan_count = @ + 1,
                                  !.messages = Append(@,
                                      HumanMessage(IF is_replan THEN "replan"
                                                   ELSE "plan"))]
                      IN  Outcome(t, "", "planning", raw, "ok")

\* faulty variant: a replan starts the new plan from its first task
handle_planning_resetting(s, is_replan, raw) ==
    LET result == Sanitize(raw)
    IN  IF ~IsJson(result)
        THEN Outcome(s, "", "planning", raw, "JSONDecodeError")
        ELSE LET plan_data == json_loads(result)
             IN  IF ~IsDict(plan_data)
                 THEN Outcome(s, "AttributeError", "planning", raw, "ok")
                 ELSE LET new_plan == Get(plan_data.fields, "plan", <<>>)
                          t == [s EXCEPT
                                  !.plan = new_plan,
                                  !.completed_tasks = IF is_replan THEN <<>> ELSE @,
                                  !.replan_count = IF is_replan THEN @ + 1 ELSE @,
                                  !.messages = Append(@,
                                      HumanMessage(IF is_replan THEN "replan"
                                                   ELSE "plan"))]
                      IN  Outcome(t, "", "planning", raw, "ok")

handle_planning_clearing(s, is_replan, raw) ==
    LET result == Sanitize(raw)
    IN  IF ~IsJson(result)
        THEN Outcome([s EXCEPT !.plan = <<>>], "", "planning", raw, "JSONDecodeError")
        ELSE LET plan_data == json_loads(result)
             IN  IF ~IsDict(plan_data)
                 THEN Outcome(s, "AttributeError", "planning", raw, "ok")
                 ELSE LET new_plan == Get(plan_data.fields, "plan", <<>>)
                          t == [s EXCEPT
                                  !.plan = new_plan,
                                  !.replan_count = IF is_replan THEN @ + 1 ELSE @,
                                  !.messages = Append(@,
                                      HumanMessage(IF is_replan THEN "replan"
                                                   ELSE "plan"))]
                      IN  Outcome(t, "", "planning", raw, "ok")

handle_planning(s, is_replan, raw) ==
    LET result == Sanitize(raw)
    IN  IF ~IsJson(result)
        THEN Outcome(s, "", "planning", raw, "JSONDecodeError")
        ELSE LET plan_data == json_loads(result)
             IN  IF ~IsDict(plan_data)
                 THEN Outcome(s, "AttributeError", "planning", raw, "ok")
                 ELSE LET new_plan == Get(plan_data.fields, "plan", <<>>)
                          t == [s EXCEPT
                                  !.plan = new_plan,
                                  !.replan_count = IF is_replan THEN @ + 1 ELSE @,
                                  !.messages = Append(@,
                                      HumanMessage(IF is_replan THEN "replan"
                                                   ELSE "plan"))]
                      IN  Outcome(t, "", "planning", raw, "ok")

\* faulty variant: with every task done the cursor goes back to the last one
next_task_index_wrapping(s) ==
    IF s.plan # <<>> /\ Len(s.completed_tasks) >= Len(s.plan)
    THEN Len(s.plan) - 1
    ELSE Len(s.completed_tasks)

\* faulty variant: the cursor stays on the first task
next_task_index_first(s) == 0

next_task_index(s) == Len(s.completed_tasks)

\* the results field is a text in every TaskResult: the JSON string of a
\* decoded answer is held as the text of its characters
EmptyText == <<>>

DecodedTaskResult(current_task, execution_data) ==
    [task |-> current_task,
     execution_process |-> Get(execution_data, "execution_process", ""),
     results |-> Get(execution_data, "results", EmptyText),
     challenges |-> Get(execution_data, "challenges", ""),
     quality_score |-> Get(execution_data, "quality_score", MissingQualityScore),
     recommendations |-> Get(execution_data, "recommendations", "")]

\* faulty variant: the fallback record gets the score of a decoded answer
\* that has none
FallbackTaskResult_midscore(current_task, result) ==
    [task |-> current_task, results |-> result,
     quality_score |-> MissingQualityScore]

FallbackTaskResult(current_task, result) ==
    [task |-> current_task, results |-> result,
     quality_score |-> FallbackQualityScore]

\* faulty variant: after the bootstrap planning the same iteration goes on
\* to execute the first task, the service answering the same text again
handle_execution_fallthrough(s, raw) ==
    LET boot == IF s.plan = <<>> THEN handle_planning(s, FALSE, raw) ELSE NoCall(s)
        st == boot.s
    IN  IF boot.raised # "" \/ st.plan = <<>> \/ next_task_index(st) >= Len(st.plan)
        THEN boot
        ELSE LET current_task == st.plan[next_task_index(st) + 1]
                 result == Sanitize(raw)
                 out == IF ~IsJson(result)
                        THEN Outcome([st EXCEPT !.completed_tasks =
                                         Append(@, FallbackTaskResult(current_task, result))],
                                     "", "execution", raw, "JSONDecodeError")
                        ELSE IF ~IsDict(json_loads(result))
                        THEN Outcome(st, "AttributeError", "execution", raw, "ok")
                        ELSE Outcome(
                               [st EXCEPT
                                  !.completed_tasks = Append(@,
                                      DecodedTaskResult(current_task, json_loads(result).fields)),
                                  !.messages = Append(@, HumanMessage("task"))],
                               "", "execution", raw, "ok")
             IN  [out EXCEPT !.calls = boot.calls + 1]

\* faulty variant: the bootstrap planning counts as a replan
handle_execution_replanning(s, raw) ==
    IF s.plan = <<>>
    THEN handle_planning(s, TRUE, raw)
    ELSE IF next_task_index(s) >= Len(s.plan)
    THEN NoCall(s)
    ELSE LET current_task == s.plan[next_task_index(s) + 1]
             result == Sanitize(raw)
         IN  IF ~IsJson(result)
             THEN Outcome([s EXCEPT !.completed_tasks =
                              Append(@, FallbackTaskResult(current_task, result))],
                          "", "execution", raw, "JSONDecodeError")
             ELSE LET execution_data == json_loads(result)
                  IN  IF ~IsDict(execution_data)
                      THEN Outcome(s, "AttributeError", "execution", raw, "ok")
                      ELSE Outcome(
                             [s EXCEPT
                                !.completed_tasks = Append(@,
                                    DecodedTaskResult(current_task, execution_data.fields)),
                                !.messages = Append(@, HumanMessage("task"))],
                             "", "execution", raw, "ok")

handle_execution(s, raw) ==
    IF s.plan = <<>>
    THEN handle_planning(s, FALSE, raw)
    ELSE IF next_task_index(s) >= Len(s.plan)
    THEN NoCall(s)
    ELSE LET current_task == s.plan[next_task_index(s) + 1]
             result == Sanitize(raw)
         IN  IF ~IsJson(result)
             THEN Outcome([s EXCEPT !.completed_tasks =
                              Append(@, FallbackTaskResult(current_task, result))],
                          "", "execution", raw, "JSONDecodeError")
             ELSE LET execution_data == json_loads(result)
                  IN  IF ~IsDict(execution_data)
                      THEN Outcome(s, "AttributeError", "execution", raw, "ok")
                      ELSE Outcome(
                             [s EXCEPT
                                !.completed_tasks = Append(@,
                                    DecodedTaskResult(current_task, execution_data.fields)),
                                !.messages = Append(@, HumanMessage("task"))],
                             "", "execution", raw, "ok")

Max(a, b) == IF a >= b THEN a ELSE b
Min(a, b) == IF a <= b THEN a ELSE b
\* faulty variant: the adjusted score is stored as it comes
Clamp_unbounded(x) == x

Clamp(x) == Max(ConfidenceFloor, Min(ConfidenceCeiling, x))

\* json.dumps of the reflection summary: an opaque text holding the record
json_dumps(v) == [json |-> v]

ReflectionSummary(reflection_data) ==
    [assessment |-> Get(reflection_data, "assessment", ""),
     strengths |-> Get(reflection_data, "strengths", <<>>),
     weaknesses |-> Get(reflection_data, "weaknesses", <<>>),
     recommendations |-> Get(reflection_data, "recommendations", <<>>),
     should_replan |-> Get(reflection_data, "should_replan", FALSE)]

\* faulty variant: a reflection that does not decode is recorded as raw text
\* and costs confidence
handle_reflection_penalising(s, raw) ==
    IF s.completed_tasks = <<>>
    THEN NoCall(s)
    ELSE LET result == Sanitize(raw)
         IN  IF ~IsJson(result)
             THEN Outcome([s EXCEPT
                             !.reflection_history = Append(@, json_dumps(result)),
                             !.confidence_score = Clamp(@ - 1)],
                          "", "reflection", raw, "JSONDecodeError")
             ELSE LET reflection_data == json_loads(result)
                  IN  IF ~IsDict(reflection_data)
                      THEN Outcome(s, "AttributeError", "reflection", raw, "ok")
                      ELSE LET f == reflection_data.fields
                           IN  Outcome(
                                 [s EXCEPT
                                    !.reflection_history =
                                        Append(@, json_dumps(ReflectionSummary(f))),
                                    !.confidence_score =
                                        Clamp(@ + Get(f, "confidence_adjustment",
                                                      MissingConfidenceAdjustment)),
                                    !.messages = Append(@, HumanMessage("reflection"))],
                                 "", "reflection", raw, "ok")

\* faulty variant: the history keeps the latest reflection only
handle_reflection_rewriting(s, raw) ==
    IF s.completed_tasks = <<>>
    THEN NoCall(s)
    ELSE LET result == Sanitize(raw)
         IN  IF ~IsJson(result)
             THEN Outcome(s, "", "reflection", raw, "JSONDecodeError")
             ELSE LET reflection_data == json_loads(result)
                  IN  IF ~IsDict(reflection_data)
                      THEN Outcome(s, "AttributeError", "reflection", raw, "ok")
                      ELSE LET f == reflection_data.fields
                           IN  Outcome(
                                 [s EXCEPT
                                    !.reflection_history =
                                        <<json_dumps(ReflectionSummary(f))>>,
                                    !.confidence_score =
                                        Clamp(@ + Get(f, "confidence_adjustment",
                                                      MissingConfidenceAdjustment)),
                                    !.messages = Append(@, HumanMessage("reflection"))],
                                 "", "reflection", raw, "ok")

\* faulty variant: a reflection that recommends replanning drops the plan
\* and counts a replan
handle_reflection_replanning(s, raw) ==
    IF s.completed_tasks = <<>>
    THEN NoCall(s)
    ELSE LET result == Sanitize(raw)
         IN  IF ~IsJson(result)
             THEN Outcome(s, "", "reflection", raw, "JSONDecodeError")
             ELSE LET reflection_data == json_loads(result)
                  IN  IF ~IsDict(reflection_data)
                      THEN Outcome(s, "AttributeError", "reflection", raw, "ok")
                      ELSE LET f == reflection_data.fields
                               again == Get(f, "should_replan", FALSE)
                           IN  Outcome(
                                 [s EXCEPT
                                    !.reflection_history =
                                        Append(@, json_dumps(ReflectionSummary(f))),
                                    !.confidence_score =
                                        Clamp(@ + Get(f, "confidence_adjustment",
                                                      MissingConfidenceAdjustment)),
                                    !.messages = Append(@, HumanMessage("reflection")),
                                    !.plan = IF again THEN <<>> ELSE @,
                                    !.replan_count = IF again THEN @ + 1 ELSE @],
                                 "", "reflection", raw, "ok")

\* faulty variant: the Reflector is called even when nothing was executed
handle_reflection_unguarded(s, raw) ==
    LET result == Sanitize(raw)
    IN  IF ~IsJson(result)
        THEN Outcome(s, "", "reflection", raw, "JSONDecodeError")
        ELSE LET reflection_data == json_loads(result)
             IN  IF ~IsDict(reflection_data)
                 THEN Outcome(s, "AttributeError", "reflection", raw, "ok")
                 ELSE LET f == reflection_data.fields
                      IN  Outcome(
                            [s EXCEPT
                               !.reflection_history =
                                   Append(@, json_dumps(ReflectionSummary(f))),
                               !.confidence_score =
                                   Clamp(@ + Get(f, "confidence_adjustment",
                                                 MissingConfidenceAdjustment)),
                               !.messages = Append(@, HumanMessage("reflection"))],
                            "", "reflection", raw, "ok")

handle_reflection(s, raw) ==
    IF s.completed_tasks = <<>>
    THEN NoCall(s)
    ELSE LET result == Sanitize(raw)
         IN  IF ~IsJson(result)
             THEN Outcome(s, "", "reflection", raw, "JSONDecodeError")
             ELSE LET reflection_data == json_loads(result)
                  IN  IF ~IsDict(reflection_data)
                      THEN Outcome(s, "AttributeError", "reflection", raw, "ok")
                      ELSE LET f == reflection_data.fields
                               confidence_adjustment ==
                                   Get(f, "confidence_adjustment",
                                       MissingConfidenceAdjustment)
                           IN  Outcome(
                                 [s EXCEPT
                                    !.reflection_history =
                                        Append(@, json_dumps(ReflectionSummary(f))),
                                    !.confidence_score =
                                        Clamp(@ + confidence_adjustment),
                                    !.messages = Append(@, HumanMessage("reflection"))],
                                 "", "reflection", raw, "ok")

\* ---------------------------------------------------------------- the loop
LoopGuard(i, m) == i < m
\* faulty variant: an iteration counts twice
NextIteration_twice(i) == i + 2

NextIteration(i) == i + 1
\* faulty variant: the closing check fires one iteration early
BudgetSpent_early(i, m) == i + 1 >= m

BudgetSpent(i, m) == i >= m

DecisionAction(d) == Get(d, "action", "reflect")
DecisionConfidence(d) == Get(d, "confidence", MissingConfidence)
\* faulty variant: once a reflection is recorded the score is no longer
\* overwritten by a decision
RecordConfidence_kept(c) == IF reflection_history # <<>> THEN confidence_score ELSE c

RecordConfidence(c) == c

\* faulty variant: the two statuses are swapped
ResultStatus_swapped(a) ==
    IF a = "complete" THEN "max_iterations_reached" ELSE "completed"

ResultStatus(a) == IF a = "complete" THEN "completed" ELSE "max_iterations_reached"

\* writes a handler's outcome back and runs the check that closes an iteration
Apply(out) ==
    /\ plan' = out.s.plan
    /\ completed_tasks' = out.s.completed_tasks
    /\ reflection_history' = out.s.reflection_history
    /\ messages' = out.s.messages
    /\ replan_count' = out.s.replan_count
    /\ confidence_score' = out.s.confidence_score
    /\ last' = out.exchange
    /\ error' = out.raised
    /\ pc' = IF out.raised # "" THEN "raised"
             ELSE IF BudgetSpent(iteration_count, max_iterations) THEN "return"
             ELSE "loop"
    /\ requests' = requests + out.calls
    /\ UNCHANGED <<max_iterations, locals, status, returned, asked, complete_decided,
                   cleaning, workflow>>

\* one pass of the while test, the controller's decision and its recording,
\* the service answering the controller with one of texts
DecideWith(texts) ==
    /\ pc = "loop"
    /\ LoopGuard(iteration_count, max_iterations)
    /\ iteration_count' = NextIteration(iteration_count)
    /\ \E raw \in texts :
         LET d == decide_next_action(raw)
         IN  /\ decision' = d
             /\ asked' = [cleaned |-> Sanitize(raw),
                          decode |-> DecodeOutcome(Sanitize(raw)),
                          history |-> recent_history(SessionState)]
             /\ IF IsDict(d)
                THEN /\ action' = DecisionAction(d.fields)
                     /\ confidence' = DecisionConfidence(d.fields)
                     /\ confidence_score' = RecordConfidence(confidence')
                     /\ status' = action'
                     /\ complete_decided' = (complete_decided \/ action' = "complete")
                     /\ pc' = "dispatch"
                     /\ error' = error
                ELSE /\ pc' = "raised"
                     /\ error' = "AttributeError"
                     /\ UNCHANGED <<action, confidence, confidence_score, status,
                                    complete_decided>>
    /\ last' = NoExchange
    /\ requests' = 1
    /\ UNCHANGED <<max_iterations, returned, plan, completed_tasks,
                   reflection_history, messages, replan_count, cleaning, workflow>>

Decide == DecideWith(ControllerTexts)

\* the dispatch of a plan or replan decision, the service answering with one
\* of texts
PlanningWith(texts) ==
    /\ pc = "dispatch"
    /\ action \in {"plan", "replan"}
    /\ \E raw \in texts :
         Apply(handle_planning(SessionState, action = "replan", raw))

HandlePlanning == PlanningWith(PlanningTexts)

\* the dispatch of an execute decision, the service answering a planning
\* prompt with one of ptexts and an execution prompt with one of etexts
ExecutionWith(ptexts, etexts) ==
    /\ pc = "dispatch"
    /\ action = "execute"
    /\ \E raw \in (IF plan = <<>> THEN ptexts ELSE etexts) :
         Apply(handle_execution(SessionState, raw))

HandleExecution == ExecutionWith(PlanningTexts, ExecutionTexts)

\* faulty variant: an action label that is not known is skipped
HandleReflection_known ==
    /\ pc = "dispatch"
    /\ action \notin {"plan", "replan", "execute", "complete"}
    /\ IF action = "reflect"
       THEN \E raw \in ReflectionTexts : Apply(handle_reflection(SessionState, raw))
       ELSE Apply(NoCall(SessionState))

HandleReflection ==
    /\ pc = "dispatch"
    /\ action \notin {"plan", "replan", "execute", "complete"}
    /\ \E raw \in ReflectionTexts :
         Apply(handle_reflection(SessionState, raw))

\* faulty variant: a complete decision closes the iteration like any other
Complete_continuing ==
    /\ pc = "dispatch"
    /\ action = "complete"
    /\ pc' = IF BudgetSpent(iteration_count, max_iterations) THEN "return" ELSE "loop"
    /\ UNCHANGED <<max_iterations, error, returned, asked, last, complete_decided,
                   requests, locals, session, cleaning, workflow>>

Complete ==
    /\ pc = "dispatch"
    /\ action = "complete"
    /\ pc' = "return"
    /\ UNCHANGED <<max_iterations, error, returned, asked, last, complete_decided,
                   requests, locals, session, cleaning, workflow>>

\* the while test failing
LoopExit ==
    /\ pc = "loop"
    /\ ~LoopGuard(iteration_count, max_iterations)
    /\ pc' = "return"
    /\ UNCHANGED <<max_iterations, error, returned, asked, last, complete_decided,
                   requests, locals, session, cleaning, workflow>>

\* the return statement; reading a local no iteration has bound raises
Return ==
    /\ pc = "return"
    /\ IF action = Unbound
       THEN /\ pc' = "raised"
            /\ error' = "UnboundLocalError"
            /\ returned' = returned
       ELSE /\ pc' = "done"
            /\ error' = error
            /\ returned' = [objective |-> Objective,
                            completed_tasks |-> completed_tasks,
                            reflections |-> reflection_history,
                            final_confidence |-> confidence_score,
                            iterations_used |-> iteration_count,
                            status |-> ResultStatus(action)]
    /\ UNCHANGED <<max_iterations, asked, last, complete_decided, requests, locals,
                   session, cleaning, workflow>>

\* the component the iteration under dispatch is about to call, "none" when
\* it calls none; the answer plays no part in it
Callee ==
    CASE action \in {"plan", "replan"} -> "planning"
      [] action = "execute" -> handle_execution(SessionState, <<>>).exchange.op
      [] action = "complete" -> "none"
      [] OTHER -> handle_reflection(SessionState, <<>>).exchange.op

\* llm.invoke raises in decide_next_action: nothing catches it
ControllerCallFails ==
    /\ pc = "loop"
    /\ LoopGuard(iteration_count, max_iterations)
    /\ iteration_count' = NextIteration(iteration_count)
    /\ asked' = [cleaned |-> <<>>, decode |-> "raised",
                 history |-> recent_history(SessionState)]
    /\ last' = NoExchange
    /\ requests' = 1
    /\ pc' = "raised"
    /\ error' = "ExternalServiceFailure"
    /\ UNCHANGED <<max_iterations, returned, complete_decided, decision, action,
                   confidence, session, cleaning, workflow>>

\* faulty variant: the handler catches the failure and the loop carries on
ComponentCallFails_swallowed ==
    /\ pc = "dispatch"
    /\ Callee # "none"
    /\ last' = [op |-> Callee, raw |-> <<>>, decode |-> "raised"]
    /\ requests' = requests + 1
    /\ pc' = IF BudgetSpent(iteration_count, max_iterations) THEN "return" ELSE "loop"
    /\ UNCHANGED <<max_iterations, error, returned, asked, complete_decided, locals,
                   session, cleaning, workflow>>

\* llm.invoke raises in a tool's _run: nothing catches it
ComponentCallFails ==
    /\ pc = "dispatch"
    /\ Callee # "none"
    /\ last' = [op |-> Callee, raw |-> <<>>, decode |-> "raised"]
    /\ requests' = requests + 1
    /\ pc' = "raised"
    /\ error' = "ExternalServiceFailure"
    /\ UNCHANGED <<max_iterations, returned, asked, complete_decided, locals,
                   session, cleaning, workflow>>

Next ==
    \/ ControllerCallFails
    \/ ComponentCallFails
    \/ Complete
    \/ LoopExit
    \/ Return
    \/ Decide
    \/ HandlePlanning
    \/ HandleExecution
    \/ HandleReflection

Spec == Init /\ [][Next]_vars

\* ------------------------------------------------------- a scripted session
\* The controller decides plan, then execute while tasks remain, then
\* complete; the Plan Generator answers with a plan of 1..MaxScriptLen tasks
\* and the Task Executor with a record; answers come plain or fenced.
Both(vs) == Wrap(vs, vs)
DecisionTexts(a) == Both({JsonObject([action |-> a, confidence |-> 8])})
ScriptedAction ==
    IF iteration_count = 0 THEN "plan"
    ELSE IF Len(completed_tasks) < Len(plan) THEN "execute"
    ELSE "complete"
ScriptedPlanTexts ==
    Both({JsonObject([plan |-> PlanFrom(t, n)]) : t \in Tasks, n \in 1..MaxScriptLen})
ScriptedExecutionTexts == Both({JsonObject(f) : f \in ExecutionObjects})

ScriptedInit == InitWith(1..(MaxScriptLen + 3))
ScriptedDecide == DecideWith(DecisionTexts(ScriptedAction))
ScriptedPlanning == PlanningWith(ScriptedPlanTexts)
ScriptedExecution == ExecutionWith(ScriptedPlanTexts, ScriptedExecutionTexts)

ScriptedNext ==
    \/ ScriptedDecide
    \/ ScriptedPlanning
    \/ ScriptedExecution
    \/ Complete
    \/ Return

ScriptedSpec == ScriptedInit /\ [][ScriptedNext]_vars

\* ------------------------------------------- a session of execute decisions
\* The controller decides execute every time; the components answer with a
\* JSON object or with text that is not JSON.
ObjectOrProse(texts) ==
    {t \in texts : ~IsJson(Sanitize(t)) \/ IsDict(json_loads(Sanitize(t)))}

ExecuteOnlyDecide == DecideWith(DecisionTexts("execute"))
ExecuteOnlyExecution ==
    ExecutionWith(ObjectOrProse(PlanningTexts), ObjectOrProse(ExecutionTexts))

ExecuteOnlyNext ==
    \/ ExecuteOnlyDecide
    \/ ExecuteOnlyExecution
    \/ LoopExit
    \/ Return

ExecuteOnlySpec == Init /\ [][ExecuteOnlyNext]_vars

\* ------------------------------------------------ the cleaning on its own
\* The cleaning applied to a text, then to what it returned. A text is a
\* concatenation of at most MaxPieces pieces: a fence, a json tag, a
\* whitespace character, a payload, a single backquote.
Pieces == {Fence, JsonTag, <<Ws>>, <<Atom(Prose)>>, <<Tick>>}

RECURSIVE TextsOf(_)
TextsOf(n) ==
    IF n = 0 THEN {<<>>}
    ELSE TextsOf(n - 1) \cup {t \o p : t \in TextsOf(n - 1), p \in Pieces}

SanitizerInit ==
    /\ Constructed({0})
    /\ text \in TextsOf(MaxPieces)
    /\ cleanings = <<>>
    /\ Entered(<<>>)

SanitizeAgain ==
    /\ Len(cleanings) < 2
    /\ cleanings' = Append(cleanings,
                           Sanitize(IF cleanings = <<>> THEN text
                                    ELSE cleanings[Len(cleanings)]))
    /\ UNCHANGED <<max_iterations, pc, error, returned, asked, last,
                   complete_decided, requests, locals, session, text,
                   workflow>>

SanitizerNext == SanitizeAgain

SanitizerSpec == SanitizerInit /\ [][SanitizerNext]_vars

\* -------------------------------------- a session that plans and executes
\* The controller decides plan, replan or execute, every answer decodes, and
\* the budget is one more than MaxIter: long enough for two executions, a
\* replan to a shorter plan and one more execute decision.
OverrunInit == InitWith({MaxIter + 1})
OverrunDecide ==
    DecideWith(UNION {DecisionTexts(a) : a \in {"plan", "replan", "execute"}})
OverrunPlanTexts == Wrap({JsonObject([plan |-> p]) : p \in Plans}, {})
OverrunPlanning == PlanningWith(OverrunPlanTexts)
OverrunExecution ==
    ExecutionWith(OverrunPlanTexts, Wrap({JsonObject(f) : f \in ExecutionObjects}, {}))

OverrunNext ==
    \/ OverrunDecide
    \/ OverrunPlanning
    \/ OverrunExecution
    \/ Return

OverrunSpec == OverrunInit /\ [][OverrunNext]_vars

\* ------------------------------------------ a session that fills the lists
\* The controller decides plan, then execute while tasks remain, then
\* reflect: up to MaxDone results and MaxRecorded reflections are recorded
\* before the last decision is asked for.
HistoryAction ==
    IF iteration_count = 0 THEN "plan"
    ELSE IF Len(completed_tasks) < Len(plan) THEN "execute"
    ELSE "reflect"
HistoryPlanTexts ==
    Wrap({JsonObject([plan |-> PlanFrom(t, n)]) : t \in Tasks, n \in 1..MaxDone}, {})
HistoryInit == InitWith(1..(MaxDone + MaxRecorded + 2))
HistoryDecide == DecideWith(DecisionTexts(HistoryAction))
HistoryPlanning == PlanningWith(HistoryPlanTexts)
HistoryExecution ==
    ExecutionWith(HistoryPlanTexts, Wrap({JsonObject(f) : f \in ExecutionObjects}, {}))

HistoryNext ==
    \/ HistoryDecide
    \/ HistoryPlanning
    \/ HistoryExecution
    \/ HandleReflection
    \/ Return

HistorySpec == HistoryInit /\ [][HistoryNext]_vars

\* ------------------------------------------------------ the simple workflow
\* src/agents.py: a planning node, then an execute node that is entered again
\* while should_continue says so. A line of the planner's answer is a record:
\* its form tells what it starts with (a digit and a dot somewhere, a digit
\* and no dot, a dash and a space, anything else, nothing), whole is the
\* stripped line and rest what follows the first dot or the dash.
Line(form, whole, rest) == [form |-> form, whole |-> whole, rest |-> rest]
Lines ==
    {Line("numbered", "1. t1", "t1"), Line("numbered", "2. t2", "t2"),
     Line("dash", "- t1", "t1"), Line("bare", "3 t2", ""),
     Line("prose", "Plan:", ""), Line("blank", "", "")}

RECURSIVE ListingsOf(_)
ListingsOf(n) ==
    IF n = 0 THEN {<<>>}
    ELSE ListingsOf(n - 1) \cup {Append(l, x) : l \in ListingsOf(n - 1), x \in Lines}

\* HierarchicalPlanner.plan: the tasks read off the lines of the answer
RECURSIVE HierarchicalPlanner_plan(_)
HierarchicalPlanner_plan(lines) ==
    IF lines = <<>> THEN <<>>
    ELSE LET line == Head(lines)
             tasks == HierarchicalPlanner_plan(Tail(lines))
         IN  IF line.form \in {"numbered", "bare"}
             THEN <<IF line.form = "numbered" THEN line.rest ELSE line.whole>> \o tasks
             ELSE IF line.form = "dash"
             THEN <<line.rest>> \o tasks
             ELSE tasks

\* ActionExecutor.execute returns result.content as it is, whatever it is:
\* the answer here is one no handler of the controller loop could decode
ExecutorContents == {Plain(JsonList)}

\* faulty variant: the workflow ends with one task still to run
should_continue_early(st) ==
    IF st.current_step + 1 >= Len(st.plan) THEN "end" ELSE "execute"

\* faulty variant: the workflow goes back to the execute node with no task left
should_continue_again(st) ==
    IF st.current_step > Len(st.plan) THEN "end" ELSE "execute"

should_continue(st) ==
    IF st.current_step >= Len(st.plan) THEN "end" ELSE "execute"

plan_step ==
    /\ node = "planning"
    /\ state' = IF state.plan = <<>>
                THEN [state EXCEPT !.plan = HierarchicalPlanner_plan(listing),
                                   !.messages = Append(@, HumanMessage("plan"))]
                ELSE state
    /\ node' = "execute"
    /\ UNCHANGED <<max_iterations, pc, error, returned, asked, last,
                   complete_decided, requests, locals, session, cleaning,
                   listing, executed, visits>>

\* faulty variant: the step counter goes up even when no task is left
execute_step_counting ==
    /\ node = "execute"
    /\ \E content \in ExecutorContents :
         LET current_step == state.current_step
             done == current_step >= Len(state.plan)
             new == IF done THEN [state EXCEPT !.current_step = current_step + 1]
                    ELSE [state EXCEPT
                            !.current_step = current_step + 1,
                            !.results = Append(@, content),
                            !.messages = Append(@, HumanMessage("step"))]
         IN  /\ state' = new
             /\ executed' = IF done THEN executed
                            ELSE Append(executed, state.plan[current_step + 1])
             /\ node' = IF should_continue(new) = "end" THEN "END" ELSE "execute"
    /\ visits' = visits + 1
    /\ UNCHANGED <<max_iterations, pc, error, returned, asked, last,
                   complete_decided, requests, locals, session, cleaning, listing>>

\* the execute node and the conditional edge that leaves it
execute_step ==
    /\ node = "execute"
    /\ \E content \in ExecutorContents :
         LET current_step == state.current_step
             done == current_step >= Len(state.plan)
             new == IF done THEN state
                    ELSE [state EXCEPT
                            !.current_step = current_step + 1,
                            !.results = Append(@, content),
                            !.messages = Append(@, HumanMessage("step"))]
         IN  /\ state' = new
             /\ executed' = IF done THEN executed
                            ELSE Append(executed, state.plan[current_step + 1])
             /\ node' = IF should_continue(new) = "end" THEN "END" ELSE "execute"
    /\ visits' = visits + 1
    /\ UNCHANGED <<max_iterations, pc, error, returned, asked, last,
                   complete_decided, requests, locals, session, cleaning, listing>>

\* the simple workflow on its own, the planner answering any listing of up
\* to MaxLines lines
SimpleInit ==
    /\ Constructed({0})
    /\ text = <<>>
    /\ cleanings = <<>>
    /\ \E lines \in ListingsOf(MaxLines) : Entered(lines)

\* the planner's or the executor's call of the service raises: no node of
\* the graph and no caller catches it, the workflow stops where it is
SimpleCallFails ==
    /\ node \in {"planning", "execute"}
    /\ node' = "raised"
    /\ UNCHANGED <<max_iterations, pc, error, returned, asked, last,
                   complete_decided, requests, locals, session, cleaning,
                   listing, state, executed, visits>>

SimpleNext ==
    \/ plan_step
    \/ execute_step
    \/ SimpleCallFails

SimpleSpec == SimpleInit /\ [][SimpleNext]_vars

\* The controller loop beside it: the controller decides execute while tasks
\* remain (the first time to get the plan) and then complete, and the Plan
\* Generator answers with the plan the simple planner read.
WorkflowAction ==
    IF iteration_count = 0 \/ Len(completed_tasks) < Len(plan) THEN "execute"
    ELSE "complete"
WorkflowInit ==
    /\ Constructed({1, MaxLines + 2})
    /\ text = <<>>
    /\ cleanings = <<>>
    /\ \E lines \in ListingsOf(MaxLines) : Entered(lines)
WorkflowDecide == DecideWith(DecisionTexts(WorkflowAction))
WorkflowExecution ==
    ExecutionWith(Wrap({JsonObject([plan |-> HierarchicalPlanner_plan(listing)])}, {}),
                  Wrap({Prose} \cup {JsonObject(f) : f \in ExecutionObjects}, {}))

WorkflowNext ==
    \/ plan_step
    \/ execute_step
    \/ WorkflowDecide
    \/ WorkflowExecution
    \/ Complete
    \/ Return

WorkflowSpec == WorkflowInit /\ [][WorkflowNext]_vars

TypeOK ==
    /\ pc \in {"loop", "dispatch", "return", "done", "raised"}
    /\ iteration_count \in 0..max_iterations
    /\ replan_count \in 0..iteration_count

\* ================================================================ claims
Terminated == pc \in {"done", "raised"}

\* what is left of the run: three steps at most per remaining iteration
PcRank == CASE pc = "dispatch" -> 3
            [] pc = "loop" -> 2
            [] pc = "return" -> 1
            [] OTHER -> 0
Remaining == 3 * (max_iterations - iteration_count) + PcRank

\* C1: for every max_iterations >= 1 and whatever the service answers, run
\* stops (it returns or raises) after at most max_iterations decision cycles,
\* and the iterations_used it returns is between 1 and max_iterations.
\* Termination: every step of run lowers Remaining, which is never negative,
\* and run can take a step as long as it has neither returned nor raised.
C1_TerminatesWithinBudget ==
    /\ [](max_iterations >= 1 =>
            /\ iteration_count <= max_iterations
            /\ (pc = "done" =>
                  /\ returned.iterations_used >= 1
                  /\ returned.iterations_used <= max_iterations))
    /\ [](Remaining >= 0 /\ (~Terminated => ENABLED Next))
    /\ [][Remaining' < Remaining]_vars

\* a run that used its whole budget of at least two iterations without a
\* complete decision has returned
C1_Witness ==
    /\ pc = "done"
    /\ max_iterations >= 2
    /\ returned.iterations_used = max_iterations
    /\ ~complete_decided

\* C2: the returned status is "completed" exactly when the loop ended on a
\* complete decision, and "max_iterations_reached" exactly when the budget
\* was used up without any complete decision.
C2_StatusTellsHowTheLoopEnded ==
    pc = "done" =>
        /\ (returned.status = "completed") = (action = "complete")
        /\ (action = "complete") = complete_decided
        /\ (returned.status = "max_iterations_reached")
               = (~complete_decided /\ iteration_count = max_iterations)

\* complete was decided on the iteration numbered max_iterations
C2_Witness ==
    /\ pc = "done"
    /\ returned.status = "completed"
    /\ returned.iterations_used = max_iterations
    /\ max_iterations >= 2

WellFormed(r) ==
    /\ DOMAIN r = {"objective", "completed_tasks", "reflections",
                   "final_confidence", "iterations_used", "status"}
    /\ r.status \in {"completed", "max_iterations_reached"}

\* C3: once the loop has ended, run returns a well-formed result record, for
\* every value of max_iterations, 0 included.
C3_LoopEndReturnsRecord ==
    [][pc = "return" => (pc' = "done" /\ WellFormed(returned'))]_vars

\* C4: no text returned by the Completion Service makes run raise: a text
\* that is not JSON, or JSON that is not an object, is absorbed by the
\* component's fallback.
C4_NoTextMakesRunRaise ==
    ~(pc = "raised" /\ error = "AttributeError")

\* C5: len(completed_tasks) <= len(plan) whenever the plan is non-empty.
C5_CompletedWithinPlan ==
    plan # <<>> => Len(completed_tasks) <= Len(plan)

InUnitInterval(x) == 0 <= x /\ x <= 10

\* C6: confidence_score is within [0,1] in every state of run, and so is the
\* returned final_confidence.
C6_ConfidenceInUnitInterval ==
    /\ InUnitInterval(confidence_score)
    /\ (pc = "done" => InUnitInterval(returned.final_confidence))

\* the step being taken is the dispatch of an iteration to the component op
Dispatched(op) == pc = "dispatch" /\ last'.op = op

\* C7: task execution follows plan order: every step that changes
\* completed_tasks appends exactly one TaskResult, whose task is the element
\* of the plan in force at the index equal to the number of results recorded
\* before it, so the k-th result is for plan index k, no index is executed
\* twice and none is skipped; an execution whose answer is not JSON advances
\* the cursor by exactly one as well.
C7_ExecutionFollowsPlanOrder ==
    [][ LET k == Len(completed_tasks)
        IN  /\ Len(completed_tasks') # k =>
                  /\ Len(completed_tasks') = k + 1
                  /\ SubSeq(completed_tasks', 1, k) = completed_tasks
                  /\ plan' = plan
                  /\ k < Len(plan)
                  /\ completed_tasks'[k + 1].task = plan[k + 1]
            /\ (Dispatched("execution") /\ last'.decode = "JSONDecodeError") =>
                  Len(completed_tasks') = k + 1
      ]_vars

\* two different tasks of one plan were executed, the second with an answer
\* that was not JSON
C7_Witness ==
    /\ Len(completed_tasks) = 2
    /\ Len(plan) = 2
    /\ plan[1] # plan[2]
    /\ completed_tasks[1].task = plan[1]
    /\ completed_tasks[2].task = plan[2]
    /\ last.op = "execution"
    /\ last.decode = "JSONDecodeError"

\* C8 as stated: when the answer to an execute is not decodable, exactly one
\* TaskResult is appended for the current task, with quality_score 0.3 and
\* results equal to the raw text the service returned, and no other field.
C8_FallbackKeepsRawText ==
    [][ (Dispatched("execution") /\ last'.decode = "JSONDecodeError") =>
            completed_tasks' = Append(completed_tasks,
                [task |-> plan[Len(completed_tasks) + 1],
                 results |-> last'.raw,
                 quality_score |-> 3])
      ]_vars

\* C8 as amended: the results field holds the cleaned text, that is the raw
\* text after trimming and the removal of a leading and a trailing fence.
C8_FallbackKeepsCleanedText ==
    [][ (Dispatched("execution") /\ last'.decode = "JSONDecodeError") =>
            completed_tasks' = Append(completed_tasks,
                [task |-> plan[Len(completed_tasks) + 1],
                 results |-> Sanitize(last'.raw),
                 quality_score |-> 3])
      ]_vars

\* a fenced answer that is not JSON was recorded by the fallback
C8_Witness ==
    /\ last.op = "execution"
    /\ last.decode = "JSONDecodeError"
    /\ last.raw # Sanitize(last.raw)
    /\ completed_tasks # <<>>
    /\ completed_tasks[Len(completed_tasks)].quality_score = 3

\* C9: when the controller's text is not decodable, the decision is the
\* default one (action reflect, confidence 0.3, urgency medium), the loop
\* records confidence 0.3 and status reflect, and the iteration is dispatched
\* to reflection, whatever happened in the iteration before.
C9_DefaultDecisionOnDecodeFailure ==
    /\ []((pc = "dispatch" /\ asked.decode = "JSONDecodeError") =>
            /\ decision.fields.action = "reflect"
            /\ decision.fields.confidence = 3
            /\ decision.fields.urgency = "medium"
            /\ action = "reflect"
            /\ confidence = 3
            /\ confidence_score = 3
            /\ status = "reflect")
    /\ [][(pc = "dispatch" /\ asked.decode = "JSONDecodeError") =>
            /\ last'.op \in {"reflection", "none"}
            /\ last'.op = "none" <=> completed_tasks = <<>>
            /\ plan' = plan
            /\ completed_tasks' = completed_tasks]_vars

\* after an execute iteration, an undecodable decision led to a reflection
C9_Witness ==
    /\ asked.decode = "JSONDecodeError"
    /\ last.op = "reflection"
    /\ iteration_count >= 3
    /\ reflection_history # <<>>

\* C10: a planning step (plan, replan or bootstrap) whose answer fails to
\* decode leaves the plan as it was, and replan_count, completed_tasks and
\* reflection_history with it.
C10_FailedPlanningKeepsPlan ==
    [][ (Dispatched("planning")
           /\ (last'.decode = "JSONDecodeError" \/ error' = "AttributeError")) =>
            /\ plan' = plan
            /\ replan_count' = replan_count
            /\ completed_tasks' = completed_tasks
            /\ reflection_history' = reflection_history
      ]_vars

\* a replan over a non-empty plan got an answer that was not JSON
C10_Witness ==
    /\ last.op = "planning"
    /\ last.decode = "JSONDecodeError"
    /\ status = "replan"
    /\ plan # <<>>
    /\ completed_tasks # <<>>

\* the iteration under dispatch goes to _handle_reflection
ReflectDecided == pc = "dispatch" /\ action \notin {"plan", "replan", "execute", "complete"}

\* C11: a reflect taken while completed_tasks is empty does not call the
\* Reflector, appends no ReflectionRecord and leaves confidence_score alone.
C11_ReflectOnNothingIsNoOp ==
    [][ (ReflectDecided /\ completed_tasks = <<>>) =>
            /\ last'.op = "none"
            /\ reflection_history' = reflection_history
            /\ confidence_score' = confidence_score
      ]_vars

\* a reflect iteration has run over a plan of which nothing was executed
C11_Witness ==
    /\ pc \in {"loop", "return"}
    /\ status = "reflect"
    /\ plan # <<>>
    /\ completed_tasks = <<>>
    /\ reflection_history = <<>>
    /\ last.op = "none"

\* C12 (under ScriptedSpec): with a decodable plan of n >= 1 tasks, decodable
\* executions and max_iterations >= n + 2, run returns status completed,
\* n completed tasks and iterations_used = n + 2.
C12_ScriptedRunCompletes ==
    (pc = "done" /\ Len(plan) >= 1 /\ max_iterations >= Len(plan) + 2) =>
        /\ returned.status = "completed"
        /\ Len(returned.completed_tasks) = Len(plan)
        /\ returned.iterations_used = Len(plan) + 2

\* the three-task session of the scenario: five iterations
C12_Witness ==
    /\ pc = "done"
    /\ Len(plan) = 3
    /\ Len(returned.completed_tasks) = 3
    /\ returned.iterations_used = 5
    /\ returned.status = "completed"

\* C13 (under ExecuteOnlySpec): an execute decision over an empty plan calls
\* the Plan Generator instead, appends no TaskResult and leaves replan_count
\* alone; with max_iterations = 2, once iteration 1 has bootstrapped a plan,
\* iteration 2 executes the task at index 0, and run returns status
\* max_iterations_reached with iterations_used = 2.
C13_ExecuteBootstrapsThenExecutes ==
    /\ [][ (pc = "dispatch" /\ action = "execute" /\ plan = <<>>) =>
              /\ last'.op = "planning"
              /\ completed_tasks' = completed_tasks
              /\ replan_count' = replan_count ]_vars
    /\ [][ (pc = "dispatch" /\ max_iterations = 2 /\ iteration_count = 2
              /\ plan # <<>>) =>
              /\ completed_tasks = <<>>
              /\ last'.op = "execution"
              /\ Len(completed_tasks') = 1
              /\ completed_tasks'[1].task = plan[1]
              /\ plan' = plan
              /\ pc' = "return" ]_vars
    /\ []((pc = "done" /\ max_iterations = 2) =>
              /\ returned.status = "max_iterations_reached"
              /\ returned.iterations_used = 2
              /\ replan_count = 0)

\* the scenario has run: a bootstrap, one execution, the budget of 2 spent
C13_Witness ==
    /\ pc = "done"
    /\ max_iterations = 2
    /\ returned.status = "max_iterations_reached"
    /\ returned.iterations_used = 2
    /\ Len(returned.completed_tasks) = 1
    /\ returned.completed_tasks[1].task = plan[1]
    /\ last.op = "execution"

\* C14 (under SanitizerSpec): the cleaning is idempotent: cleaning what the
\* cleaning returned gives the same text, for every text, those that begin
\* or end with more than one fence included.
C14_SanitizeIsIdempotent ==
    Len(cleanings) = 2 => cleanings[2] = cleanings[1]

\* C15 as stated: every iteration of run makes at most one request to the
\* Completion Service, the controller's request and the dispatched
\* component's request both counted.
C15_OneRequestPerIteration == requests <= 1

\* C15 as amended: every iteration makes exactly one controller request and
\* at most one request of the dispatched component, two at most; an
\* iteration begins only at the loop head, after the effect of the one
\* before is in the session state.
C15_TwoRequestsPerIteration ==
    /\ [](/\ requests <= 2
          /\ (pc = "dispatch" => requests = 1 /\ last = NoExchange)
          /\ ((pc \in {"loop", "return"} /\ iteration_count > 0) =>
                 requests = IF last.op = "none" THEN 1 ELSE 2)
          /\ ((pc = "loop" /\ last.op = "execution") => completed_tasks # <<>>)
          /\ ((pc = "loop" /\ last.op = "reflection" /\ last.decode = "ok") =>
                 reflection_history # <<>>))
    /\ [][ iteration_count' # iteration_count =>
              /\ pc = "loop"
              /\ requests' = 1
              /\ <<plan', completed_tasks', reflection_history', messages',
                    replan_count'>>
                   = <<plan, completed_tasks, reflection_history, messages,
                       replan_count>> ]_vars

\* an iteration that made two requests: the controller's and the executor's
C15_Witness ==
    /\ pc = "loop"
    /\ iteration_count >= 2
    /\ requests = 2
    /\ last.op = "execution"
    /\ completed_tasks # <<>>

\* C16: a failing Completion Service call, whoever makes it (the controller,
\* the Plan Generator, the Task Executor, the Reflector), ends the session
\* with the failure raised to the caller of run: no result record is
\* returned, the session state is as the failing call found it, and nothing
\* runs afterwards, so the call is not made again.
C16_ServiceFailureIsFatal ==
    /\ []((asked.decode = "raised" \/ last.decode = "raised") =>
              /\ pc = "raised"
              /\ error = "ExternalServiceFailure"
              /\ returned = NoResult)
    /\ [][ (asked'.decode = "raised" \/ last'.decode = "raised") =>
              /\ session' = session
              /\ requests' <= 2 ]_vars
    /\ [][ pc # "raised" ]_vars

\* the Reflector's call failed after a task had been completed
C16_Witness ==
    /\ pc = "raised"
    /\ error = "ExternalServiceFailure"
    /\ last = [op |-> "reflection", raw |-> <<>>, decode |-> "raised"]
    /\ completed_tasks # <<>>
    /\ returned = NoResult

\* C17 as stated: a reflect step changes nothing of the session state but
\* reflection_history, by at most one appended record, and confidence_score:
\* plan, completed_tasks, replan_count and the other fields stay as they are.
C17_ReflectTouchesHistoryAndConfidenceOnly ==
    [][ ReflectDecided =>
          /\ plan' = plan
          /\ completed_tasks' = completed_tasks
          /\ replan_count' = replan_count
          /\ status' = status
          /\ messages' = messages
          /\ \/ reflection_history' = reflection_history
             \/ /\ Len(reflection_history') = Len(reflection_history) + 1
                /\ SubSeq(reflection_history', 1, Len(reflection_history))
                     = reflection_history ]_vars

\* C17 as amended: a reflect step never changes plan, completed_tasks or
\* replan_count, whatever the response says; its only effects on the session
\* state are at most one record appended to reflection_history, the adjusted
\* confidence_score and, only with a record, one message appended to
\* messages.
C17_ReflectKeepsPlanAndResults ==
    [][ ReflectDecided =>
          /\ plan' = plan
          /\ completed_tasks' = completed_tasks
          /\ replan_count' = replan_count
          /\ status' = status
          /\ \/ reflection_history' = reflection_history
             \/ /\ Len(reflection_history') = Len(reflection_history) + 1
                /\ SubSeq(reflection_history', 1, Len(reflection_history))
                     = reflection_history
          /\ reflection_history' = reflection_history =>
                confidence_score' = confidence_score
          /\ \/ messages' = messages
             \/ /\ messages' = Append(messages, HumanMessage("reflection"))
                /\ reflection_history' # reflection_history ]_vars

\* a reflection that recommended replanning has been recorded, the plan and
\* the replan count as they were
C17_Witness ==
    /\ last.op = "reflection"
    /\ last.decode = "ok"
    /\ error = ""
    /\ reflection_history # <<>>
    /\ reflection_history[Len(reflection_history)].json.should_replan
    /\ plan # <<>>
    /\ replan_count = 0
    /\ messages[Len(messages)] = HumanMessage("reflection")

\* C18: a reflect step over a non-empty completed_tasks whose response
\* decodes, with confidence_adjustment d (0 when absent), appends exactly
\* one record to reflection_history and sets confidence_score to
\* max(0, min(1, c + d)), c its value just before the step; the score is
\* then within [0,1], in tenths 0..10.
C18_ReflectionClampsConfidence ==
    [][ (/\ ReflectDecided
         /\ completed_tasks # <<>>
         /\ last'.op = "reflection"
         /\ last'.decode = "ok"
         /\ error' = "") =>
          LET f == json_loads(Sanitize(last'.raw)).fields
              d == IF "confidence_adjustment" \in DOMAIN f
                   THEN f.confidence_adjustment ELSE 0
              sum == confidence_score + d
          IN  /\ Len(reflection_history') = Len(reflection_history) + 1
              /\ SubSeq(reflection_history', 1, Len(reflection_history))
                   = reflection_history
              /\ confidence_score' =
                   (IF sum > 10 THEN 10 ELSE IF sum < 0 THEN 0 ELSE sum)
              /\ confidence_score' \in 0..10 ]_vars

\* two reflections in a row have been recorded, the second one pushing the
\* score against the upper end
C18_Witness ==
    /\ last.op = "reflection"
    /\ last.decode = "ok"
    /\ error = ""
    /\ Len(reflection_history) = 2
    /\ confidence > 3
    /\ confidence_score = 10

\* C19: a replan made while k tasks are completed resets neither
\* completed_tasks nor its length: the entries written so far are never
\* changed or dropped and keep the task texts of the plan they came from,
\* and the next execute step runs the task at index k of the new plan when
\* k < len(plan), so the new plan's tasks at indices 0..k-1 are never run.
C19_ReplanKeepsCursor ==
    /\ [][ (pc = "dispatch" /\ action \in {"plan", "replan"}) =>
              completed_tasks' = completed_tasks ]_vars
    /\ [][ /\ Len(completed_tasks') >= Len(completed_tasks)
           /\ SubSeq(completed_tasks', 1, Len(completed_tasks)) = completed_tasks ]_vars
    /\ [][ (/\ pc = "dispatch"
            /\ action = "execute"
            /\ replan_count >= 1
            /\ Len(completed_tasks) < Len(plan)) =>
              /\ last'.op = "execution"
              /\ plan' = plan
              /\ \/ pc' = "raised" /\ completed_tasks' = completed_tasks
                 \/ /\ Len(completed_tasks') = Len(completed_tasks) + 1
                    /\ completed_tasks'[Len(completed_tasks')].task
                         = plan[Len(completed_tasks) + 1] ]_vars

\* one task run from the first plan, a replan to a plan that starts with
\* another task, then the task at index 1 of the new plan run
C19_Witness ==
    /\ replan_count = 1
    /\ last.op = "execution"
    /\ Len(completed_tasks) = 2
    /\ Len(plan) = 2
    /\ completed_tasks[1].task # plan[1]
    /\ completed_tasks[2].task = plan[2]

\* C20 (under OverrunSpec): an execute decision that finds completed_tasks
\* longer than a non-empty plan stops the session with an error; the loop
\* does not carry on from it.
C20_OverrunStopsTheSession ==
    [][ (/\ pc = "dispatch"
         /\ action = "execute"
         /\ plan # <<>>
         /\ Len(completed_tasks) > Len(plan)) =>
           /\ pc' = "raised"
           /\ error' # "" ]_vars

\* C21: a complete decision ends the loop in its own iteration: no component
\* is called in it (the controller's request stays the only one), plan,
\* completed_tasks, reflection_history and replan_count stay as they were,
\* and the controller is not asked again afterwards.
C21_CompleteEndsTheLoop ==
    /\ [][ (pc = "dispatch" /\ action = "complete") =>
              /\ pc' = "return"
              /\ last' = NoExchange
              /\ requests' = 1
              /\ <<plan', completed_tasks', reflection_history', replan_count'>>
                   = <<plan, completed_tasks, reflection_history, replan_count>> ]_vars
    /\ [][ complete_decided =>
              /\ iteration_count' = iteration_count
              /\ asked' = asked
              /\ last' = last
              /\ requests' = requests
              /\ session' = session ]_vars

\* complete was decided with budget left and work done: run has returned
C21_Witness ==
    /\ pc = "done"
    /\ complete_decided
    /\ returned.status = "completed"
    /\ returned.iterations_used < max_iterations
    /\ completed_tasks # <<>>
    /\ last = NoExchange

\* C22: an execute decision over a non-empty plan with
\* len(completed_tasks) >= len(plan) is a no-op iteration: the Task Executor
\* is not called, nothing is appended, the plan stays; the loop goes on to
\* the next decision while budget is left, and a run in which complete is
\* never decided returns max_iterations_reached with the whole budget used,
\* every planned task done or not.
C22_ExecuteOnFinishedPlanIsNoOp ==
    /\ [][ (/\ pc = "dispatch"
            /\ action = "execute"
            /\ plan # <<>>
            /\ Len(completed_tasks) >= Len(plan)) =>
              /\ last'.op = "none"
              /\ requests' = requests
              /\ session' = session
              /\ error' = ""
              /\ pc' = IF iteration_count < max_iterations THEN "loop" ELSE "return" ]_vars
    /\ []((/\ pc = "loop"
           /\ iteration_count < max_iterations
           /\ plan # <<>>
           /\ Len(completed_tasks) >= Len(plan)) => ENABLED Decide)
    /\ []((pc = "done" /\ ~complete_decided) =>
              /\ returned.status = "max_iterations_reached"
              /\ returned.iterations_used = max_iterations)

\* the budget ended on a no-op execute, the one planned task long done
C22_Witness ==
    /\ pc = "done"
    /\ returned.status = "max_iterations_reached"
    /\ action = "execute"
    /\ last.op = "none"
    /\ plan # <<>>
    /\ Len(returned.completed_tasks) = Len(plan)
    /\ returned.iterations_used >= Len(plan) + 3

\* what a reflect step does, told without the action label: nothing when no
\* task is completed; otherwise one Reflector call, and on a decoded object
\* one record and the clamped adjustment; the iteration then closes as any
\* other
ReflectStep ==
    /\ <<plan', completed_tasks', replan_count', status'>>
         = <<plan, completed_tasks, replan_count, status>>
    /\ IF completed_tasks = <<>>
       THEN /\ last'.op = "none"
            /\ requests' = requests
            /\ session' = session
       ELSE /\ last'.op = "reflection"
            /\ requests' = requests + 1
            /\ IF last'.decode = "ok" /\ error' = ""
               THEN LET f == json_loads(Sanitize(last'.raw)).fields
                        d == IF "confidence_adjustment" \in DOMAIN f
                             THEN f.confidence_adjustment ELSE 0
                        sum == confidence_score + d
                    IN  /\ Len(reflection_history') = Len(reflection_history) + 1
                        /\ confidence_score' =
                             (IF sum > 10 THEN 10 ELSE IF sum < 0 THEN 0 ELSE sum)
               ELSE /\ reflection_history' = reflection_history
                    /\ confidence_score' = confidence_score
    /\ error' = "" =>
         pc' = IF iteration_count < max_iterations THEN "loop" ELSE "return"
    /\ pc' # "done"

\* C23: a decision whose action is none of plan, execute, reflect, replan,
\* complete is dispatched as a reflect decision is: the step has the effect
\* of a reflect step in the same state and the loop does not end on it; a
\* decision with no action field is a reflect decision.
C23_UnknownActionIsReflect ==
    /\ [][ (pc = "dispatch"
              /\ action \notin {"plan", "replan", "execute", "reflect", "complete"})
              => ReflectStep ]_vars
    /\ [][ (pc = "dispatch" /\ action = "reflect") => ReflectStep ]_vars
    /\ []((pc = "dispatch" /\ "action" \notin DOMAIN decision.fields) =>
              action = "reflect")

\* an unknown label was decided over a completed task and a reflection was
\* recorded for it, the loop going on
C23_Witness ==
    /\ pc = "loop"
    /\ status = "dance"
    /\ last.op = "reflection"
    /\ last.decode = "ok"
    /\ reflection_history # <<>>
    /\ completed_tasks # <<>>

\* the replans that went through, as the message log tells them
ReplansLogged ==
    Cardinality({i \in DOMAIN messages : messages[i] = HumanMessage("replan")})

\* C24: replan_count starts at 0 and never decreases; a replan decision whose
\* planning response decodes to a plan object adds exactly one, and nothing
\* else changes it: not a plan decision, not the bootstrap planning of an
\* execute decision, not a replan whose response fails to decode. So it is
\* the number of replans that went through.
C24_ReplanCountCountsReplans ==
    /\ []((iteration_count = 0 => replan_count = 0) /\ replan_count = ReplansLogged)
    /\ [][ replan_count' =
             IF /\ pc = "dispatch"
                /\ action = "replan"
                /\ last'.op = "planning"
                /\ last'.decode = "ok"
                /\ error' = ""
             THEN replan_count + 1
             ELSE replan_count ]_vars

\* one replan went through; a plan decision, a bootstrap and a replan that
\* failed to decode have not been counted
C24_Witness ==
    /\ replan_count = 1
    /\ iteration_count >= 3
    /\ status = "replan"
    /\ last.op = "planning"
    /\ last.decode = "JSONDecodeError"
    /\ HumanMessage("plan") \in {messages[i] : i \in DOMAIN messages}

\* old is a prefix of new: the entries of old are in new, same places
IsPrefix(old, new) == Len(new) >= Len(old) /\ SubSeq(new, 1, Len(old)) = old

\* C25: completed_tasks and reflection_history are append-only through the
\* whole run: every step keeps the entries there are and their order; an
\* iteration appends at most one entry in all, a TaskResult in an execute
\* step or a ReflectionRecord in a reflect step, never both, and none in its
\* decision or in a plan, replan or complete step.
C25_HistoriesAppendOnly ==
    [][ /\ IsPrefix(completed_tasks, completed_tasks')
        /\ IsPrefix(reflection_history, reflection_history')
        /\ (Len(completed_tasks') - Len(completed_tasks))
             + (Len(reflection_history') - Len(reflection_history)) <= 1
        /\ completed_tasks' # completed_tasks =>
             pc = "dispatch" /\ action = "execute"
        /\ reflection_history' # reflection_history =>
             pc = "dispatch" /\ action \notin {"plan", "replan", "execute", "complete"} ]_vars

\* one result and then two reflections, each appended after the others
C25_Witness ==
    /\ Len(completed_tasks) = 1
    /\ Len(reflection_history) = 2
    /\ reflection_history[1] # reflection_history[2]
    /\ last.op = "reflection"

C27_UndecodedReflectionIsSkipped ==
    [][ (/\ ReflectDecided
         /\ last'.op = "reflection"
         /\ last'.decode = "JSONDecodeError") =>
           /\ ~IsJson(Sanitize(last'.raw))
           /\ session' = session
           /\ error' = ""
           /\ pc' = IF iteration_count < max_iterations THEN "loop" ELSE "return" ]_vars

\* a reflection over a completed task did not decode: nothing recorded, the
\* score as the decision left it, the loop at its next iteration
C27_Witness ==
    /\ pc = "loop"
    /\ last.op = "reflection"
    /\ last.decode = "JSONDecodeError"
    /\ completed_tasks # <<>>
    /\ reflection_history = <<>>
    /\ confidence_score = confidence

\* the plan a planning answer carries, an empty one when it has no plan field
AnsweredPlan(raw) ==
    LET f == json_loads(Sanitize(raw)).fields
    IN  IF "plan" \in DOMAIN f THEN f.plan ELSE <<>>

\* C28: the plan changes only in a planning step that decodes (a plan or
\* replan decision, or an execute decision over an empty plan), and then it
\* is replaced as a whole by the plan of the answer; an execute over a
\* non-empty plan, a reflect and a complete leave it as it is, and no step
\* edits it in part.
C28_PlanReplacedWholesale ==
    /\ [][ plan' # plan =>
              /\ pc = "dispatch"
              /\ action \in {"plan", "replan"} \/ (action = "execute" /\ plan = <<>>)
              /\ last'.op = "planning"
              /\ last'.decode = "ok"
              /\ error' = "" ]_vars
    /\ [][ (pc = "dispatch" /\ last'.op = "planning"
              /\ last'.decode = "ok" /\ error' = "") =>
              plan' = AnsweredPlan(last'.raw) ]_vars
    /\ [][ (pc = "dispatch" /\ last'.op # "planning") => plan' = plan ]_vars

\* a two-task plan, one task run, then a replan to a one-task plan that
\* shares no position with it
C28_Witness ==
    /\ replan_count = 1
    /\ last.op = "planning"
    /\ last.decode = "ok"
    /\ Len(plan) = 1
    /\ Len(completed_tasks) = 2
    /\ completed_tasks[1].task # plan[1]

\* C29 (under HistorySpec): the recent history sent to the controller is the
\* last min(3, len(completed_tasks)) TaskResults in order, then the last
\* min(2, len(reflection_history)) ReflectionRecords in order, 5 entries at
\* most; building it changes neither list.
C29_RecentHistoryIsTheTail ==
    /\ [](pc = "dispatch" =>
            LET h == asked.history
                n == Len(completed_tasks)
                m == Len(reflection_history)
                a == IF n < 3 THEN n ELSE 3
                b == IF m < 2 THEN m ELSE 2
            IN  /\ Len(h) = a + b
                /\ Len(h) <= 5
                /\ \A i \in 1..a : h[i] = completed_tasks[n - a + i]
                /\ \A j \in 1..b : h[a + j] = reflection_history[m - b + j])
    /\ [][ iteration_count' # iteration_count =>
              /\ completed_tasks' = completed_tasks
              /\ reflection_history' = reflection_history ]_vars

\* four results and three reflections are recorded and the controller was
\* sent five entries, the first one the second result
C29_Witness ==
    /\ pc = "dispatch"
    /\ Len(completed_tasks) = 4
    /\ Len(reflection_history) = 3
    /\ Len(asked.history) = 5
    /\ asked.history[1] = completed_tasks[2]
    /\ asked.history[1] # completed_tasks[1]
    /\ asked.history[5] = reflection_history[3]

\* the tasks the controller loop has given to the Task Executor
TasksRun == [i \in 1..Len(completed_tasks) |-> completed_tasks[i].task]

\* C30 (under WorkflowSpec): the simple workflow behaves as the controller
\* loop whose controller decides execute while tasks remain and then
\* complete: on the same n-task plan each runs plan[0], ..., plan[n-1], each
\* task once and in that order, and then stops.
C30_SimpleWorkflowIsScriptedLoop ==
    /\ [](/\ IsPrefix(executed, state.plan)
          /\ Len(executed) = state.current_step
          /\ Len(state.results) = state.current_step
          /\ IsPrefix(TasksRun, plan))
    /\ [](node = "END" =>
            /\ state.plan = HierarchicalPlanner_plan(listing)
            /\ executed = state.plan)
    /\ []((pc = "done" /\ complete_decided) =>
            /\ plan = HierarchicalPlanner_plan(listing)
            /\ TasksRun = plan
            /\ returned.status = "completed")
    /\ []((node = "END" /\ pc = "done" /\ complete_decided) => executed = TasksRun)
    /\ [][ node = "END" => (state' = state /\ executed' = executed /\ node' = node) ]_vars

\* both have stopped after the same two tasks, read off an answer of three
\* lines, one of them no task
C30_Witness ==
    /\ node = "END"
    /\ pc = "done"
    /\ complete_decided
    /\ Len(executed) = 2
    /\ Len(listing) = 3
    /\ executed[1] # executed[2]
    /\ executed = TasksRun

\* C31: a planning response that decodes to an object with no plan field
\* replaces the plan with the empty list, whatever the plan was, and keeps
\* completed_tasks; an execute decision over the plan so emptied calls the
\* Plan Generator again and runs no task.
C31_PlanlessAnswerClearsPlan ==
    /\ [][ (/\ pc = "dispatch"
            /\ last'.op = "planning"
            /\ last'.decode = "ok"
            /\ error' = ""
            /\ "plan" \notin DOMAIN json_loads(Sanitize(last'.raw)).fields) =>
              /\ plan' = <<>>
              /\ completed_tasks' = completed_tasks ]_vars
    /\ [][ (pc = "dispatch" /\ action = "execute" /\ plan = <<>>) =>
              /\ last'.op = "planning"
              /\ completed_tasks' = completed_tasks ]_vars

\* a replan was answered with an object that has no plan field while a
\* result was recorded: the plan is empty, the result is kept
C31_Witness ==
    /\ status = "replan"
    /\ last = [op |-> "planning", raw |-> Plain(JsonObject(NoFields)), decode |-> "ok"]
    /\ error = ""
    /\ plan = <<>>
    /\ completed_tasks # <<>>
    /\ replan_count = 1

\* C32: the plan starts empty and a task is run from a non-empty plan only,
\* so an iteration that plans comes before any that runs a task: in every
\* state len(completed_tasks) <= max(0, iteration_count - 1), and the record
\* run returns has len(completed_tasks) <= iterations_used - 1 whenever
\* iterations_used >= 1.
C32_PlanningPrecedesExecution ==
    /\ Len(completed_tasks) <= (IF iteration_count >= 1 THEN iteration_count - 1 ELSE 0)
    /\ (iteration_count <= 1 /\ pc # "loop") => completed_tasks = <<>>
    /\ (pc = "done" /\ returned.iterations_used >= 1) =>
          Len(returned.completed_tasks) <= returned.iterations_used - 1

\* every iteration but the first ran a task: the bound is met
C32_Witness ==
    /\ pc = "done"
    /\ returned.iterations_used = 3
    /\ Len(returned.completed_tasks) = 2
    /\ replan_count = 0

\* C33 (under SimpleSpec): in the simple workflow current_step = len(results)
\* and current_step <= len(plan) in every state; the plan is made once, by
\* the planning node, and stays as it is afterwards; execute_step entered
\* with current_step >= len(plan) returns the state unchanged.
C33_SimpleWorkflowInvariants ==
    /\ [](/\ state.current_step = Len(state.results)
          /\ state.current_step <= Len(state.plan)
          /\ (node \in {"execute", "END"} =>
                state.plan = HierarchicalPlanner_plan(listing)))
    /\ [][ state'.plan # state.plan => (node = "planning" /\ state.plan = <<>>) ]_vars
    /\ [][ (node = "execute" /\ state.current_step >= Len(state.plan)) =>
              /\ state' = state
              /\ executed' = executed ]_vars

\* the planner's answer had lines and no task in them: the execute node ran
\* and left the state as the planning node made it
C33_Witness ==
    /\ node = "END"
    /\ visits = 1
    /\ Len(listing) = 2
    /\ state.plan = <<>>
    /\ state = [initial_state EXCEPT !.messages = <<HumanMessage("plan")>>]

\* what is left of a run of the simple workflow: two for every task still to
\* run, and the nodes still to visit
SimpleRemaining ==
    2 * (Len(HierarchicalPlanner_plan(listing)) - state.current_step)
        + (CASE node = "planning" -> 2 [] node = "execute" -> 1 [] OTHER -> 0)

\* C34 (under SimpleSpec): the simple workflow always stops, and for a plan
\* of n tasks (n >= 0, the planner's answer with no task in it included) it
\* is at END after exactly max(1, n) runs of the execute node with n results.
\* Termination: every step lowers SimpleRemaining, which is never negative,
\* and the workflow can take a step until it is at END or a call of the
\* service has raised.
C34_SimpleWorkflowTerminates ==
    /\ [](/\ SimpleRemaining >= 0
          /\ (node \notin {"END", "raised"} => ENABLED SimpleNext))
    /\ [][SimpleRemaining' < SimpleRemaining]_vars
    /\ [](node = "END" =>
            LET n == Len(HierarchicalPlanner_plan(listing))
            IN  /\ Len(state.plan) = n
                /\ visits = (IF n >= 1 THEN n ELSE 1)
                /\ Len(state.results) = n
                /\ state.current_step = n)
    /\ [][node' = "END" => node = "execute"]_vars

\* a plan of three tasks has been run: three runs of the execute node
C34_Witness ==
    /\ node = "END"
    /\ Len(state.plan) = MaxLines
    /\ visits = MaxLines
    /\ Len(state.results) = MaxLines

====
